---- MODULE Spec2Model ----
(***************************************************************************)
(* OneDriveClient (src/onedrive_api.py): the credential held by the client *)
(* (_access_token, _token_expiry), the access_token property, the refresh  *)
(* against the identity provider and _make_request with its single retry   *)
(* after a 401.  One caller thread; the identity provider, the target API  *)
(* and the clock are the environment.                                      *)
(***************************************************************************)
EXTENDS Integers, Sequences, FiniteSets, TLC

\* ------------------------------------------------------------------ bounds
MaxCalls == 2
MaxTicks == 2
NumThreads == 2     \* caller threads sharing one client
MaxRefreshes == 2   \* token requests the threads may send
MaxLen == 2         \* characters of a caller-supplied identifier, query or path

\* ------------------------------------------------------- program constants
\* timedelta(minutes=5), in seconds
Skew == 300
\* token_data.get("expires_in", 3600)
DefaultExpiresIn == 3600

GRAPH_URL == "https://graph.microsoft.com/v1.0"

\* ------------------------------------------------------------ value domains
\* Python values held by the client or carried by a JSON body.
PyNone == [t |-> "none"]
PyStr(s) == [t |-> "str", s |-> s]
PyNum(n) == [t |-> "num", n |-> n]
PyTime(n) == [t |-> "time", n |-> n]

\* Seconds the clock may advance by while the caller is blocked or idle.
TickSteps == {1, 3299}

\* access_token values an identity-provider body may carry (JSON null among them).
TokenValues == {PyNone, PyStr(""), PyStr("tA"), PyStr("tB")}

\* expires_in values an identity-provider body may carry.
ExpiresInValues == {PyNone, PyStr("3600"), PyNum(300), PyNum(3600)}

\* JSON objects: functions from the keys present to their values.
TokenBodies ==
    { [k \in {"access_token", "expires_in"} |->
          IF k = "access_token" THEN a ELSE e] : a \in TokenValues, e \in ExpiresInValues }
    \cup { [k \in {"access_token"} |-> a] : a \in TokenValues }
    \cup { [k \in {"expires_in"} |-> e] : e \in {PyNum(3600)} }

\* What the identity provider may answer to the POST of line 82.
IdpResponses ==
    { [status |-> 200, json |-> TRUE, body |-> b] : b \in TokenBodies }
    \cup { [status |-> 200, json |-> FALSE, body |-> << >>] }
    \cup { [status |-> s, json |-> FALSE, body |-> << >>] : s \in {400, 503} }

\* The answers of an identity provider that never issues a null or empty token.
IssuingIdpResponses ==
    { r \in IdpResponses :
          (r.json /\ "access_token" \in DOMAIN r.body) =>
              r.body["access_token"] \in {PyStr("tA"), PyStr("tB")} }

\* Status codes the target API may answer with.
ApiStatuses == {101, 200, 304, 401, 403, 429, 500, 503}

\* Arguments of _make_request.
Methods == {"GET", "PUT"}
Endpoints == {"/users/u/drive/root/children"}
NoHeaders == [k \in {} |-> ""]
CallerHeaders ==
    { NoHeaders,
      [k \in {"Accept"} |-> << "application/json" >>],
      [k \in {"Authorization"} |-> << "Bearer", "caller" >>] }
\* exceptions requests raises when no response arrives
TransportErrors == { "ConnectionError", "Timeout" }
\* an exception without a response carries no status code
NoStatus == 0
CallerOptions == { [k \in {} |-> TRUE], [k \in {"allow_redirects"} |-> TRUE] }

\* **kwargs as given by the caller: the transport options, plus "headers"
\* when the caller supplied any.
Kwargs(h, o) == [headers |-> h, has_headers |-> h # NoHeaders, options |-> o]

NoCred == << PyNone, PyNone >>
NoResult == [kind |-> "none"]
Returned(status) == [kind |-> "return", status |-> status]
Raised(exc, origin, status) ==
    [kind |-> "raise", exc |-> exc, origin |-> origin, status |-> status]

\* --- a client shared by several caller threads
Threads == 1..NumThreads
\* a thread outside every method of the client
IdleThread == [pc |-> "idle", forced |-> FALSE, mine |-> 0, tokBy |-> 0, expBy |-> 0]
\* both attributes as __init__ wrote them (writer 0), no token request sent
InitWritten == [token |-> 0, expiry |-> 0, n |-> 0]
\* tokens an issuing identity provider hands out
IssuedTokens == { PyStr("tA"), PyStr("tB") }

\* --- the file operations
\* characters a caller may put into an identifier, a query or a path
Chars == { "a", "/", " ", "'", "?", "#" }
\* str arguments: sequences of characters, the empty string included
RECURSIVE StrsOfLen(_)
StrsOfLen(n) ==
    IF n = 0 THEN { << >> }
    ELSE { Append(w, c) : w \in StrsOfLen(n - 1), c \in Chars }
Strs == UNION { StrsOfLen(n) : n \in 0..MaxLen }
\* Optional[str] arguments
OptStrs == { PyNone } \cup { PyStr(w) : w \in Strs }
\* self.user_email, fixed at construction
user_email == << "u" >>
\* no file operation has been called
NoFileReq == [op |-> "none"]

VARIABLES
    now,            \* datetime.utcnow(), seconds
    access_token,   \* self._access_token
    token_expiry,   \* self._token_expiry
    pc,             \* position of the caller thread
    method, url, kwargs, headers, \* locals of _make_request
    argHeaders,     \* the headers the caller passed to the current call
    attempt,        \* 1 before line 109 has seen a 401, 2 after
    ret,            \* where the running _refresh_token returns to
    token_data,     \* local of _refresh_token (line 85)
    result,         \* outcome of the last _make_request
    sent,           \* target-API requests sent by the current call
    resps,          \* target-API status codes received by the current call
    idpLog,         \* identity-provider requests of the current call
    credBefore,     \* credential held when the unfinished or failed token request went out
    startAbsent,    \* no credential was held when the current call started
    sameResponse,   \* token_expiry was set from the response that set access_token
    calls, ticks,
    thr,            \* caller threads sharing one client: position and what each has read
    written,        \* which _refresh_token run wrote each attribute of the credential
    fileReq         \* the request a file operation hands to _make_request

vars == << now, access_token, token_expiry, pc, method, url, kwargs, headers,
           argHeaders, attempt, ret, token_data, result, sent, resps, idpLog,
           credBefore, startAbsent, sameResponse, calls, ticks,
           thr, written, fileReq >>

\* state of the threaded client and of the file operations
aux == << thr, written, fileReq >>

locals == << method, url, kwargs, headers, argHeaders >>
cred == << access_token, token_expiry, sameResponse >>

\* -------------------------------------------------------------- pure parts
\* Python truthiness of an Optional[str] / Optional[datetime].
Falsy(v) == v = PyNone \/ v = PyStr("")

\* raise_for_status taken to raise for every status outside 2xx
RaiseForStatusNon2xx(status) == status < 200 \/ status >= 300

\* requests.Response.raise_for_status: raises for 400 <= status < 600.
RaiseForStatus(status) == 400 <= status /\ status < 600

\* line 109 widened to every authorization failure
IsUnauthorizedOr403(status) == status \in {401, 403}

\* line 109
IsUnauthorized(status) == status = 401

\* lines 109-112 written as a loop: every 401 is retried
ShouldRetryEvery401(att, status) == IsUnauthorized(status)

\* lines 109-112 are an if, not a loop: only the first response is examined
ShouldRetry(att, status) == att = 1 /\ IsUnauthorized(status)

\* line 70 with the comparison turned around
IsTokenExpiredInverted ==
    IF Falsy(access_token) \/ Falsy(token_expiry)
    THEN TRUE
    ELSE now <= token_expiry.n - Skew

\* line 67 dropped: a missing credential is not reported as expired
IsTokenExpiredNoMissingCheck ==
    IF token_expiry = PyNone
    THEN FALSE
    ELSE now >= token_expiry.n - Skew

\* line 70 with > for >=: the boundary instant counts as still usable
IsTokenExpiredStrict ==
    IF Falsy(access_token) \/ Falsy(token_expiry)
    THEN TRUE
    ELSE now > token_expiry.n - Skew

\* _is_token_expired, lines 65-70
IsTokenExpired ==
    IF Falsy(access_token) \/ Falsy(token_expiry)
    THEN TRUE
    ELSE now >= token_expiry.n - Skew

\* str() of the token inside the f-string of line 93
FormatToken(v) == IF v = PyNone THEN "None" ELSE v.s

\* _get_headers, line 93, given the value access_token returned
GetHeaders(tok) == [k \in {"Authorization"} |-> << "Bearer", FormatToken(tok) >>]

\* dict.update, line 104
DictUpdate(base, upd) ==
    [k \in DOMAIN base \cup DOMAIN upd |-> IF k \in DOMAIN upd THEN upd[k] ELSE base[k]]

\* kwargs.pop("headers", {}), line 104: the value popped
PopHeaders(kw) == IF kw.has_headers THEN kw.headers ELSE NoHeaders
\* ... and kwargs once popped
Popped(kw) == [kw EXCEPT !.headers = NoHeaders, !.has_headers = FALSE]

\* timedelta(seconds=x) accepts numbers only
IsNumber(v) == v.t = "num"

\* line 88 without its default: a response lacking expires_in expires at once
ExpiresInNoDefault(body) ==
    IF "expires_in" \in DOMAIN body THEN body["expires_in"] ELSE PyNum(0)

\* token_data.get("expires_in", 3600), line 88
ExpiresIn(body) ==
    IF "expires_in" \in DOMAIN body THEN body["expires_in"] ELSE PyNum(DefaultExpiresIn)

\* line 111: the headers of the retry are rebuilt from the credential alone
RetryHeaders(old, tok) == GetHeaders(tok)

\* lines 61-62 written as a loop: the token just stored is checked again
AfterRefreshRecheck(r) == "access_token"

\* where _refresh_token returns to: line 63 after line 62 (no second check),
\* line 111 after line 110
AfterRefresh(r) == IF r = "forced" THEN "access_token" ELSE r

\* lines 106-112 wrapped in a handler that sends the request once more
TransportErrorRetriedOnce(att) == att = 1

\* lines 106 and 112 stand in no try block: an exception of the transport is
\* never answered with another request
TransportErrorRetried(att) == FALSE

\* which read of the credential sends the POST of line 82
RefreshSite ==
    IF ret = "forced" THEN "forced" ELSE IF attempt = 1 THEN "proactive" ELSE "rebuild"

SetOutcome(log, o) == [log EXCEPT ![Len(log)].outcome = o]

\* ------------------------------------------------------------------- Init
\* __init__, lines 51-56
Init ==
    /\ now = 0
    /\ access_token = PyNone
    /\ token_expiry = PyNone
    /\ pc = "idle"
    /\ method = "" /\ url = << >> /\ kwargs = Kwargs(NoHeaders, [k \in {} |-> TRUE])
    /\ headers = NoHeaders
    /\ argHeaders = NoHeaders
    /\ credBefore = NoCred
    /\ attempt = 1
    /\ ret = "none"
    /\ token_data = << >>
    /\ result = NoResult
    /\ sent = << >> /\ resps = << >> /\ idpLog = << >>
    /\ startAbsent = TRUE
    /\ sameResponse = TRUE
    /\ calls = 0 /\ ticks = 0
    /\ thr = [t \in Threads |-> IdleThread]
    /\ written = InitWritten
    /\ fileReq = NoFileReq

\* ---------------------------------------------------------------- actions
\* The clock advances while the thread is blocked on HTTP or between calls.
Tick(d) ==
    /\ pc \in {"idle", "done", "refresh_wait", "wait"}
    /\ UNCHANGED aux
    /\ ticks < MaxTicks
    /\ now' = now + d
    /\ ticks' = ticks + 1
    /\ UNCHANGED << cred, pc, locals, credBefore, attempt, ret, token_data,
                    result, sent, resps, idpLog, startAbsent, calls >>

\* _make_request entered, line 102
MakeRequest(m, e, h, o) ==
    /\ pc \in {"idle", "done"}
    /\ UNCHANGED aux
    /\ calls < MaxCalls
    /\ calls' = calls + 1
    /\ method' = m
    /\ url' = << GRAPH_URL, e >>
    /\ kwargs' = Kwargs(h, o)
    /\ headers' = NoHeaders
    /\ argHeaders' = h
    /\ attempt' = 1
    /\ ret' = "none"
    /\ result' = NoResult
    /\ sent' = << >> /\ resps' = << >> /\ idpLog' = << >>
    /\ startAbsent' = (access_token = PyNone /\ token_expiry = PyNone)
    /\ pc' = "access_token"
    /\ credBefore' = NoCred
    /\ UNCHANGED << now, cred, token_data, ticks >>

\* access_token property, lines 61-62
AccessTokenCheck ==
    /\ pc = "access_token"
    /\ UNCHANGED aux
    /\ IF IsTokenExpired
       THEN pc' = "refresh_post" /\ ret' = "access_token_return"
       ELSE pc' = "access_token_return" /\ ret' = ret
    /\ UNCHANGED << now, cred, locals, credBefore, attempt, token_data, result,
                    sent, resps, idpLog, startAbsent, calls, ticks >>

\* line 63 and line 93, then line 104 on the first attempt only
BuildHeaders ==
    /\ pc = "access_token_return"
    /\ UNCHANGED aux
    /\ IF attempt = 1
       THEN /\ headers' = DictUpdate(GetHeaders(access_token), PopHeaders(kwargs))
            /\ kwargs' = Popped(kwargs)
       ELSE /\ headers' = RetryHeaders(headers, access_token)
            /\ kwargs' = kwargs
    /\ pc' = "send"
    /\ UNCHANGED << now, cred, method, url, argHeaders, credBefore, attempt,
                    ret, token_data, result,
                    sent, resps, idpLog, startAbsent, calls, ticks >>

\* requests.post of line 82 goes out
RefreshPost ==
    /\ pc = "refresh_post"
    /\ UNCHANGED aux
    /\ idpLog' = Append(idpLog, [site |-> RefreshSite, outcome |-> "pending"])
    /\ credBefore' = << access_token, token_expiry >>
    /\ pc' = "refresh_wait"
    /\ UNCHANGED << now, cred, method, url, kwargs, headers, argHeaders,
                    attempt, ret, token_data, result, sent,
                    resps, startAbsent, calls, ticks >>

\* lines 82-86: the response arrives, raise_for_status, json(), the token is stored
RefreshResponse(r) ==
    /\ pc = "refresh_wait"
    /\ UNCHANGED aux
    /\ IF RaiseForStatus(r.status)
       THEN /\ result' = Raised("HTTPError", "idp", r.status)
            /\ pc' = "done"
            /\ idpLog' = SetOutcome(idpLog, "failed")
            /\ UNCHANGED << access_token, sameResponse, token_data >>
       ELSE IF ~r.json
       THEN /\ result' = Raised("JSONDecodeError", "idp", r.status)
            /\ pc' = "done"
            /\ idpLog' = SetOutcome(idpLog, "failed")
            /\ UNCHANGED << access_token, sameResponse, token_data >>
       ELSE IF "access_token" \notin DOMAIN r.body
       THEN /\ result' = Raised("KeyError", "idp", r.status)
            /\ pc' = "done"
            /\ idpLog' = SetOutcome(idpLog, "failed")
            /\ UNCHANGED << access_token, sameResponse, token_data >>
       ELSE /\ access_token' = r.body["access_token"]
            /\ sameResponse' = FALSE
            /\ token_data' = r.body
            /\ pc' = "refresh_expiry"
            /\ UNCHANGED << result, idpLog >>
    /\ UNCHANGED << now, token_expiry, locals, credBefore, attempt, ret, sent,
                    resps, startAbsent, calls, ticks >>

\* lines 88-89, and the return to the caller of _refresh_token
RefreshExpiry ==
    /\ pc = "refresh_expiry"
    /\ UNCHANGED aux
    /\ token_data' = << >>
    /\ IF IsNumber(ExpiresIn(token_data))
       THEN /\ token_expiry' = PyTime(now + ExpiresIn(token_data).n)
            /\ sameResponse' = TRUE
            /\ idpLog' = SetOutcome(idpLog, "ok")
            /\ pc' = AfterRefresh(ret)
            /\ ret' = "none"
            /\ credBefore' = NoCred
            /\ UNCHANGED result
       ELSE /\ result' = Raised("TypeError", "idp", 200)
            /\ idpLog' = SetOutcome(idpLog, "failed")
            /\ pc' = "done"
            /\ UNCHANGED << token_expiry, sameResponse, ret, credBefore >>
    /\ UNCHANGED << now, access_token, locals, attempt, sent, resps,
                    startAbsent, calls, ticks >>

\* requests.request of lines 106 and 112 goes out
Send ==
    /\ pc = "send"
    /\ UNCHANGED aux
    /\ sent' = Append(sent, [method |-> method, url |-> url, headers |-> headers,
                             options |-> kwargs.options])
    /\ pc' = "wait"
    /\ UNCHANGED << now, cred, locals, credBefore, attempt, ret, token_data,
                    result, resps, idpLog, startAbsent, calls, ticks >>

\* the response arrives: lines 109-110 on the first attempt, then 114-115
Response(status) ==
    /\ pc = "wait"
    /\ UNCHANGED aux
    /\ resps' = Append(resps, status)
    /\ IF ShouldRetry(attempt, status)
       THEN /\ attempt' = 2
            /\ ret' = "forced"
            /\ pc' = "refresh_post"
            /\ UNCHANGED result
       ELSE /\ result' = IF RaiseForStatus(status)
                         THEN Raised("HTTPError", "api", status)
                         ELSE Returned(status)
            /\ pc' = "done"
            /\ UNCHANGED << attempt, ret >>
    /\ UNCHANGED << now, cred, locals, credBefore, token_data, sent, idpLog,
                    startAbsent, calls, ticks >>

\* requests.post of line 82 raises: no response arrives
PostFails(exc) ==
    /\ pc = "refresh_wait"
    /\ UNCHANGED aux
    /\ result' = Raised(exc, "idp", NoStatus)
    /\ pc' = "done"
    /\ idpLog' = SetOutcome(idpLog, "failed")
    /\ UNCHANGED << now, cred, locals, credBefore, attempt, ret, token_data,
                    sent, resps, startAbsent, calls, ticks >>

\* requests.request of line 106 or 112 raises: no response arrives
RequestFails(exc) ==
    /\ pc = "wait"
    /\ UNCHANGED aux
    /\ IF TransportErrorRetried(attempt)
       THEN /\ attempt' = 2
            /\ pc' = "send"
            /\ UNCHANGED result
       ELSE /\ result' = Raised(exc, "api", NoStatus)
            /\ pc' = "done"
            /\ UNCHANGED attempt
    /\ UNCHANGED << now, cred, locals, credBefore, ret, token_data, sent, resps,
                    idpLog, startAbsent, calls, ticks >>

Next ==
    \/ \E d \in TickSteps : Tick(d)
    \/ \E m \in Methods, e \in Endpoints, h \in CallerHeaders, o \in CallerOptions :
          MakeRequest(m, e, h, o)
    \/ AccessTokenCheck
    \/ BuildHeaders
    \/ RefreshPost
    \/ \E r \in IdpResponses : RefreshResponse(r)
    \/ RefreshExpiry
    \/ Send
    \/ \E s \in ApiStatuses : Response(s)
    \/ \E x \in TransportErrors : PostFails(x)
    \/ \E x \in TransportErrors : RequestFails(x)

Spec == Init /\ [][Next]_vars

\* The same client against an identity provider that never issues a null or
\* empty token.
NextIssuing ==
    \/ \E d \in TickSteps : Tick(d)
    \/ \E m \in Methods, e \in Endpoints, h \in CallerHeaders, o \in CallerOptions :
          MakeRequest(m, e, h, o)
    \/ AccessTokenCheck
    \/ BuildHeaders
    \/ RefreshPost
    \/ \E r \in IssuingIdpResponses : RefreshResponse(r)
    \/ RefreshExpiry
    \/ Send
    \/ \E s \in ApiStatuses : Response(s)
    \/ \E x \in TransportErrors : PostFails(x)
    \/ \E x \in TransportErrors : RequestFails(x)

SpecIssuing == Init /\ [][NextIssuing]_vars

\* ------------------------------------------- one client, several threads
\* The client holds no lock: every read and every write of self._access_token
\* and self._token_expiry is a step of its own, and the steps of the threads
\* interleave freely.

\* the state of the single-threaded caller, untouched by the threads
single == << now, pc, locals, attempt, ret, token_data, result, sent, resps,
             idpLog, credBefore, startAbsent, sameResponse, calls, ticks, fileReq >>

\* thread t moves to position p
Goto(t, p) == [thr EXCEPT ![t].pc = p]

\* line 61: a thread reads the access_token property
T_Read(t) ==
    /\ thr[t].pc = "idle"
    /\ thr' = [thr EXCEPT ![t] = [IdleThread EXCEPT !.pc = "line67_token"]]
    /\ UNCHANGED << single, access_token, token_expiry, written >>

\* line 110: a thread whose request was answered 401 refreshes
T_Forced(t) ==
    /\ thr[t].pc = "idle"
    /\ thr' = [thr EXCEPT ![t] = [IdleThread EXCEPT !.pc = "line82", !.forced = TRUE]]
    /\ UNCHANGED << single, access_token, token_expiry, written >>

\* line 67, left operand: not self._access_token
T_Line67Token(t) ==
    /\ thr[t].pc = "line67_token"
    /\ thr' = Goto(t, IF Falsy(access_token) THEN "line82" ELSE "line67_expiry")
    /\ UNCHANGED << single, access_token, token_expiry, written >>

\* line 67, right operand: not self._token_expiry
T_Line67Expiry(t) ==
    /\ thr[t].pc = "line67_expiry"
    /\ thr' = Goto(t, IF Falsy(token_expiry) THEN "line82" ELSE "line70")
    /\ UNCHANGED << single, access_token, token_expiry, written >>

\* line 70: self._token_expiry is read again and compared
T_Line70(t) ==
    /\ thr[t].pc = "line70"
    /\ token_expiry # PyNone
    /\ thr' = [thr EXCEPT ![t].expBy = written.expiry,
                          ![t].pc = IF now >= token_expiry.n - Skew
                                    THEN "line82" ELSE "line63"]
    /\ UNCHANGED << single, access_token, token_expiry, written >>

\* lines 82-85: the token request is sent and answered
T_Line82(t) ==
    /\ thr[t].pc = "line82"
    /\ written.n < MaxRefreshes
    /\ written' = [written EXCEPT !.n = written.n + 1]
    /\ thr' = [thr EXCEPT ![t].mine = written.n + 1, ![t].pc = "line86"]
    /\ UNCHANGED << single, access_token, token_expiry >>

\* line 86: self._access_token is assigned
T_Line86(t, tok) ==
    /\ thr[t].pc = "line86"
    /\ access_token' = tok
    /\ written' = [written EXCEPT !.token = thr[t].mine]
    /\ thr' = Goto(t, "line89")
    /\ UNCHANGED << single, token_expiry >>

\* lines 88-89: self._token_expiry is assigned; _refresh_token returns
T_Line89(t) ==
    /\ thr[t].pc = "line89"
    /\ token_expiry' = PyTime(now + DefaultExpiresIn)
    /\ written' = [written EXCEPT !.expiry = thr[t].mine]
    /\ thr' = IF thr[t].forced
              THEN [thr EXCEPT ![t] = IdleThread]
              ELSE [thr EXCEPT ![t].expBy = thr[t].mine, ![t].pc = "line63"]
    /\ UNCHANGED << single, access_token >>

\* line 63: self._access_token is read and returned
T_Line63(t) ==
    /\ thr[t].pc = "line63"
    /\ thr' = [thr EXCEPT ![t].tokBy = written.token, ![t].pc = "returned"]
    /\ UNCHANGED << single, access_token, token_expiry, written >>

\* the caller has the token; the thread leaves the client
T_Leave(t) ==
    /\ thr[t].pc = "returned"
    /\ thr' = [thr EXCEPT ![t] = IdleThread]
    /\ UNCHANGED << single, access_token, token_expiry, written >>

NextThreads ==
    \/ \E t \in Threads : T_Read(t)
    \/ \E t \in Threads : T_Forced(t)
    \/ \E t \in Threads : T_Line67Token(t)
    \/ \E t \in Threads : T_Line67Expiry(t)
    \/ \E t \in Threads : T_Line70(t)
    \/ \E t \in Threads : T_Line82(t)
    \/ \E t \in Threads, tok \in IssuedTokens : T_Line86(t, tok)
    \/ \E t \in Threads : T_Line89(t)
    \/ \E t \in Threads : T_Line63(t)
    \/ \E t \in Threads : T_Leave(t)

SpecThreads == Init /\ [][NextThreads]_vars

\* ------------------------------------------------------ the file operations
\* A path is a sequence of pieces: the text of the f-string is kept in whole
\* pieces, what the caller supplied is kept character by character.

\* the state of the HTTP client, untouched by the building of a path
client == << now, access_token, token_expiry, pc, locals, attempt, ret,
             token_data, result, sent, resps, idpLog, credBefore, startAbsent,
             sameResponse, calls, ticks, thr, written >>

\* characters urllib.parse.quote never encodes (letters, digits, _ . - ~), and
\* its default safe="/"
QuoteSafe == { "a", "/" }

\* "%XX" of the character's byte; the last case is "%" itself
PercentEncode(c) ==
    CASE c = " " -> << "%", "2", "0" >>
      [] c = "#" -> << "%", "2", "3" >>
      [] c = "'" -> << "%", "2", "7" >>
      [] c = "?" -> << "%", "3", "F" >>
      [] OTHER -> << "%", "2", "5" >>

\* requests.utils.quote(path), line 188
RECURSIVE Quote(_)
Quote(w) ==
    IF w = << >> THEN << >>
    ELSE (IF Head(w) \in QuoteSafe THEN << Head(w) >> ELSE PercentEncode(Head(w)))
             \o Quote(Tail(w))

\* the else branch of line 129 taken for every folder_id
ListFilesEndpointRootOnly(folder_id) ==
    << "/users/" >> \o user_email \o << "/drive/root/children" >>

\* lines 127-130
ListFilesEndpoint(folder_id) ==
    IF folder_id # PyNone /\ folder_id.s # << >>
    THEN << "/users/" >> \o user_email \o << "/drive/items/" >> \o folder_id.s
             \o << "/children" >>
    ELSE << "/users/" >> \o user_email \o << "/drive/root/children" >>

\* what a file operation hands to _make_request
FileReq(op, arg, endpoint, options) ==
    [op |-> op, arg |-> arg, method |-> "GET", endpoint |-> endpoint,
     options |-> options]

NoOptions == [k \in {} |-> TRUE]

\* list_files, lines 127-132
list_files(folder_id) ==
    /\ fileReq' = FileReq("list_files", folder_id, ListFilesEndpoint(folder_id), NoOptions)
    /\ UNCHANGED client

\* get_file_metadata, lines 145-146
get_file_metadata(file_id) ==
    /\ fileReq' = FileReq("get_file_metadata", PyStr(file_id),
                          << "/users/" >> \o user_email \o << "/drive/items/" >> \o file_id,
                          NoOptions)
    /\ UNCHANGED client

\* download_file, lines 159-160
download_file(file_id) ==
    /\ fileReq' = FileReq("download_file", PyStr(file_id),
                          << "/users/" >> \o user_email \o << "/drive/items/" >> \o file_id
                              \o << "/content" >>,
                          [k \in {"allow_redirects"} |-> TRUE])
    /\ UNCHANGED client

\* search_files, lines 173-174
search_files(query) ==
    /\ fileReq' = FileReq("search_files", PyStr(query),
                          << "/users/" >> \o user_email \o << "/drive/root/search(q='" >>
                              \o query \o << "')" >>,
                          NoOptions)
    /\ UNCHANGED client

\* get_file_by_path, lines 188-190
get_file_by_path(path) ==
    /\ fileReq' = FileReq("get_file_by_path", PyStr(path),
                          << "/users/" >> \o user_email \o << "/drive/root:" >>
                              \o Quote(path),
                          NoOptions)
    /\ UNCHANGED client

NextFiles ==
    \/ \E f \in OptStrs : list_files(f)
    \/ \E f \in Strs : get_file_metadata(f)
    \/ \E f \in Strs : download_file(f)
    \/ \E q \in Strs : search_files(q)
    \/ \E p \in Strs : get_file_by_path(p)

SpecFiles == Init /\ [][NextFiles]_vars

\* ------------------------------------------------------------- vocabulary
InCall == pc \notin {"idle", "done"}

\* one step of the running call (everything but the clock and a new call)
CallStep ==
    \/ AccessTokenCheck
    \/ BuildHeaders
    \/ RefreshPost
    \/ \E r \in IdpResponses : RefreshResponse(r)
    \/ RefreshExpiry
    \/ Send
    \/ \E s \in ApiStatuses : Response(s)
    \/ \E x \in TransportErrors : PostFails(x)
    \/ \E x \in TransportErrors : RequestFails(x)

\* identity-provider requests of the current call sent from the given sites
IdpRequests(sites) == Cardinality({ i \in 1..Len(idpLog) : idpLog[i].site \in sites })

\* how far the current call has come; every step of a call moves it forward
PcIndex ==
    CASE pc = "access_token" -> 0
      [] pc = "refresh_post" -> 1
      [] pc = "refresh_wait" -> 2
      [] pc = "refresh_expiry" -> 3
      [] pc = "access_token_return" -> 4
      [] pc = "send" -> 5
      [] pc = "wait" -> 6
      [] OTHER -> 0
Progress ==
    IF pc = "idle" THEN 0
    ELSE IF pc = "done" THEN 30
    ELSE (IF attempt = 1 THEN 0 ELSE IF ret = "forced" THEN 10 ELSE 20) + PcIndex

\* the call has a final target-API response: the first when it is not 401,
\* otherwise the retried one
HasFinalStatus ==
    \/ Len(resps) = 1 /\ resps[1] # 401
    \/ Len(resps) = 2
FinalStatus == resps[Len(resps)]

Is2xx(status) == 200 <= status /\ status < 300

CredentialPresent == access_token # PyNone /\ token_expiry # PyNone
MoreThanSkewAhead == token_expiry # PyNone /\ token_expiry.n > now + Skew

\* ------------------------------------------------------------------ claims

\* C1: a call answered 401 then 200 makes exactly one identity-provider token
\* request after the 401, sends exactly one retry and returns the 200
\* response, whatever expires_in came with the new token.
C1_OneTokenRequestAfter401 ==
    (pc = "done" /\ resps = << 401, 200 >>) =>
        /\ IdpRequests({"forced", "rebuild"}) = 1
        /\ Len(sent) = 2
        /\ result = Returned(200)

\* C2: a call answered 401 twice fails with the HTTP error of the second
\* response after exactly one forced refresh (the _refresh_token() call of
\* line 110) and exactly one retry; no call sends a third target-API request,
\* and a call always terminates: it is never stuck and each of its steps
\* moves it strictly forward on a bounded scale.
C2_Retry401OnceThenFail ==
    /\ [](/\ Len(sent) <= 2
          /\ Progress \in 0..30
          /\ (InCall => ENABLED CallStep)
          /\ (pc = "done" /\ resps = << 401, 401 >>) =>
                 /\ result = Raised("HTTPError", "api", 401)
                 /\ IdpRequests({"forced"}) = 1
                 /\ Len(sent) = 2)
    /\ [][CallStep => Progress' > Progress]_vars
C2_Witness == pc = "done" /\ resps = << 401, 401 >> /\ Len(sent) = 2

\* C3: the retried request equals the first one but for the rebuilt bearer
\* token: same method, URL and transport options, and the caller's headers
\* again laid over the client's Authorization header.
C3_RetryIdentical ==
    (pc = "wait" /\ Len(sent) = 2) =>
        /\ sent[2].method = sent[1].method
        /\ sent[2].url = sent[1].url
        /\ sent[2].options = sent[1].options
        /\ sent[2].headers = DictUpdate(GetHeaders(access_token), argHeaders)

C5_NoRetryUnless401 ==
    /\ []((resps # << >> /\ resps[1] # 401) =>
              /\ pc = "done"
              /\ Len(sent) = 1 /\ Len(resps) = 1
              /\ IdpRequests({"forced", "rebuild"}) = 0)
    /\ [][(resps' # << >> /\ resps'[1] # 401 /\ calls' = calls) =>
              (access_token' = access_token /\ token_expiry' = token_expiry)]_vars
C5_Witness ==
    pc = "done" /\ resps = << 503 >> /\ Len(sent) = 1 /\ CredentialPresent

\* C6: one call sends 1 or 2 target-API requests and at most 2 token
\* requests: at most one before the first attempt and at most one after a 401.
C6_AtMostTwoTokenRequests ==
    /\ Len(sent) <= 2
    /\ (pc = "done" /\ result.kind = "return" => Len(sent) >= 1)
    /\ Len(idpLog) <= 2
    /\ IdpRequests({"proactive"}) <= 1
    /\ IdpRequests({"forced", "rebuild"}) <= 1

\* C7 as stated: with a stored token (the empty string included) whose
\* expiry is more than Skew ahead, reading access_token sends no token
\* request and hands back the stored token.
C7_ValidTokenNoRefresh ==
    [][(pc = "access_token" /\ access_token # PyNone /\ MoreThanSkewAhead) =>
           (pc' = "access_token_return" /\ access_token' = access_token
            /\ idpLog' = idpLog)]_vars

\* C7 amended: with a stored non-empty token whose expiry is more than Skew
\* ahead, reading access_token sends no token request and hands back the
\* stored token.
C7_ValidNonEmptyTokenNoRefresh ==
    [][(pc = "access_token" /\ ~Falsy(access_token) /\ MoreThanSkewAhead) =>
           (pc' = "access_token_return" /\ access_token' = access_token
            /\ idpLog' = idpLog)]_vars
C7_Witness ==
    /\ pc = "access_token_return" /\ attempt = 1 /\ idpLog = << >>
    /\ calls = 2 /\ ~Falsy(access_token) /\ MoreThanSkewAhead

\* what the first target-API request of a call that started without a
\* credential has behind it: one token request, which succeeded
OneRefreshBeforeFirstRequest ==
    /\ (startAbsent /\ pc \in {"access_token_return", "send"} /\ sent = << >>) =>
           idpLog = << [site |-> "proactive", outcome |-> "ok"] >>
    /\ (startAbsent /\ sent # << >>) =>
           /\ idpLog # << >>
           /\ idpLog[1] = [site |-> "proactive", outcome |-> "ok"]
           /\ IdpRequests({"proactive"}) = 1
    /\ (startAbsent /\ idpLog # << >> /\ idpLog[1].outcome # "ok") => sent = << >>

\* C8 as stated: a call made while no credential is held makes exactly one
\* token request, which succeeds before the first target-API request, and
\* that request carries the token of that refresh.
C8_FirstRequestCarriesFreshToken ==
    /\ OneRefreshBeforeFirstRequest
    /\ (startAbsent /\ pc = "wait" /\ Len(sent) = 1) =>
           sent[1].headers["Authorization"] = << "Bearer", FormatToken(access_token) >>

\* C8 amended: as C8, but the first request carries the token of that
\* refresh unless the caller passed an Authorization header of its own,
\* which is then what the request carries.
C8_FirstRequestCarriesFreshTokenOrCallers ==
    /\ OneRefreshBeforeFirstRequest
    /\ (startAbsent /\ pc = "wait" /\ Len(sent) = 1) =>
           sent[1].headers["Authorization"] =
               IF "Authorization" \in DOMAIN argHeaders
               THEN argHeaders["Authorization"]
               ELSE << "Bearer", FormatToken(access_token) >>
C8_Witness ==
    /\ startAbsent /\ pc = "wait" /\ Len(sent) = 1
    /\ idpLog = << [site |-> "proactive", outcome |-> "ok"] >>
    /\ sent[1].headers["Authorization"] = << "Bearer", "tA" >>

\* C9: a refresh that fails leaves the stored token and the stored expiry as
\* they were when the token request went out, and the call raises.
C9_FailedRefreshKeepsCredential ==
    (pc = "done" /\ idpLog # << >> /\ idpLog[Len(idpLog)].outcome = "failed") =>
        /\ << access_token, token_expiry >> = credBefore
        /\ result.kind = "raise"

\* C10: whenever no refresh is under way, the token and the expiry are both
\* absent, or both present and stored from the same identity-provider
\* response.
C10_TokenHasMatchingExpiry ==
    (pc \notin {"refresh_wait", "refresh_expiry"}) =>
        \/ access_token = PyNone /\ token_expiry = PyNone
        \/ CredentialPresent /\ sameResponse

\* exception classes under which line 114 reports a target-API HTTP error
ApiErrorClasses == { "HTTPError" }

\* C11: when the identity provider answers a token request with a non-success
\* status or a malformed body, the call fails with an error whose class is not
\* the class of a target-API HTTP error, the refresh sent exactly one token
\* request, and no target-API request follows it in that call.
C11_IdpFailureIsAuthenticationError ==
    (pc = "done" /\ idpLog # << >> /\ idpLog[Len(idpLog)].outcome = "failed"
        /\ (result.kind = "raise" => result.exc \notin TransportErrors)) =>
        /\ result.kind = "raise"
        /\ result.exc \notin ApiErrorClasses
        /\ IdpRequests({ idpLog[Len(idpLog)].site }) = 1
        /\ Len(sent) = Len(resps)

\* C12: with two or more threads on one client, the token a read of the
\* credential returns (line 63) and the expiry that read judged it by (line 70,
\* or line 89 when the read refreshed) were written by the same refresh.
C12_ReadSeesOneRefresh ==
    \A t \in Threads : thr[t].pc = "returned" => thr[t].tokBy = thr[t].expBy

\* the read of access_token that is under way sent a token request of its own,
\* and that request succeeded
JustRefreshed ==
    /\ idpLog # << >>
    /\ idpLog[Len(idpLog)].outcome = "ok"
    /\ idpLog[Len(idpLog)].site = (IF attempt = 1 THEN "proactive" ELSE "rebuild")

RefreshSucceeds ==
    /\ pc = "refresh_expiry"
    /\ idpLog' = SetOutcome(idpLog, "ok")

\* C14: the step that completes a refresh stores as expiry the time of that
\* step plus the expires_in of the response, and that time plus 3600 seconds
\* when the response carries no expires_in.
C14_ExpiryIsRefreshTimePlusExpiresIn ==
    [][RefreshSucceeds =>
          /\ now' = now
          /\ token_expiry' =
                PyTime(now + (IF "expires_in" \in DOMAIN token_data
                              THEN token_data["expires_in"].n
                              ELSE 3600))]_vars

\* a refresh has just completed at a time after the client was built, and the
\* stored expiry lies 3600 seconds after it
C14_Witness ==
    /\ pc = "access_token_return" /\ JustRefreshed
    /\ now > 0
    /\ token_expiry = PyTime(now + 3600)

\* a request in flight fails in the transport
TransportFailure ==
    \/ \E x \in TransportErrors : PostFails(x)
    \/ \E x \in TransportErrors : RequestFails(x)

\* C15: when a token request or a target-API request fails in the transport,
\* that step ends the call with the transport's exception and nothing else
\* changes: the stored token and expiry are what they were when the failing
\* request went out, and no further token request or target-API request is
\* sent by the call.
C15_TransportFailurePropagates ==
    /\ [][TransportFailure =>
             /\ pc' = "done"
             /\ result'.kind = "raise" /\ result'.exc \in TransportErrors
             /\ << access_token, token_expiry >>' = << access_token, token_expiry >>
             /\ sent' = sent /\ resps' = resps
             /\ Len(idpLog') = Len(idpLog)]_vars
    /\ []((pc = "done" /\ result.kind = "raise" /\ result.exc \in TransportErrors) =>
             /\ ~ENABLED CallStep
             /\ result.origin = "idp" => << access_token, token_expiry >> = credBefore)

\* the retried target-API request failed in the transport after a forced
\* refresh had stored a credential
C15_Witness ==
    /\ pc = "done" /\ result.kind = "raise" /\ result.exc \in TransportErrors
    /\ result.origin = "api"
    /\ Len(sent) = 2 /\ resps = << 401 >>
    /\ CredentialPresent

\* characters that may not stand literally in a path
UnsafeChars == { " ", "'", "?", "#" }

\* C16: the path a file operation builds from a caller-supplied folder_id,
\* file_id, query or path holds none of the value's unsafe characters (space,
\* quote, '?', '#') literally; get_file_by_path percent-encodes every space.
C16_PathsAreUrlEncoded ==
    fileReq.op # "none" =>
        \A i \in 1..Len(fileReq.endpoint) : fileReq.endpoint[i] \notin UnsafeChars

\* C17 as stated: list_files issues a GET to the root children when folder_id
\* is None and to /drive/items/X/children for every supplied folder_id X.
C17_ListFilesBySupplied ==
    fileReq.op = "list_files" =>
        /\ fileReq.method = "GET"
        /\ fileReq.endpoint =
              IF fileReq.arg = PyNone
              THEN << "/users/", "u", "/drive/root/children" >>
              ELSE << "/users/", "u", "/drive/items/" >> \o fileReq.arg.s
                       \o << "/children" >>

\* C17 amended: list_files issues a GET to the root children when folder_id
\* is None or the empty string, and to /drive/items/X/children for every
\* non-empty folder_id X; nothing else enters the choice.
C17_ListFilesByTruthiness ==
    fileReq.op = "list_files" =>
        /\ fileReq.method = "GET"
        /\ fileReq.options = NoOptions
        /\ fileReq.endpoint =
              IF fileReq.arg = PyNone \/ fileReq.arg = PyStr(<< >>)
              THEN << "/users/", "u", "/drive/root/children" >>
              ELSE << "/users/", "u", "/drive/items/" >> \o fileReq.arg.s
                       \o << "/children" >>

\* list_files was called with a folder_id and lists that folder
C17_Witness ==
    /\ fileReq.op = "list_files"
    /\ fileReq.arg = PyStr(<< "a", "a" >>)
    /\ fileReq.endpoint = << "/users/", "u", "/drive/items/", "a", "a", "/children" >>

\* the first response of the call was 401 and the forced refresh of line 110
\* has sent its token request
ForcedRefreshSent ==
    /\ Len(resps) >= 1 /\ resps[1] = 401
    /\ ~(pc = "refresh_post" /\ ret = "forced")

\* C18: after a 401 the forced refresh sends a token request whatever the
\* stored expiry is, on success it has replaced the stored token and expiry
\* with those of its response, and the retried request goes out with a header
\* rebuilt by the client from the token that forced refresh stored (not the
\* header of the rejected attempt): no other refresh has written the
\* credential in between.
C18_RetryCarriesForcedRefreshToken ==
    /\ ForcedRefreshSent => IdpRequests({"forced"}) = 1
    /\ (ForcedRefreshSent /\ pc = "access_token" /\ attempt = 2) =>
          (sameResponse /\ token_expiry # PyNone
              /\ idpLog[Len(idpLog)] = [site |-> "forced", outcome |-> "ok"])
    /\ Len(sent) = 2 =>
          /\ sent[2].headers = GetHeaders(access_token)
          /\ idpLog[Len(idpLog)] = [site |-> "forced", outcome |-> "ok"]

\* the call ended because the forced refresh after a 401 failed
ForcedRefreshFailed ==
    /\ pc = "done" /\ resps = << 401 >>
    /\ idpLog # << >>
    /\ idpLog[Len(idpLog)] = [site |-> "forced", outcome |-> "failed"]

\* C19: when the target API answers 401 and the forced refresh then fails,
\* the call raises the failure of the refresh and sends no retry, the rejected
\* token and its expiry are still stored, and while that expiry is more than
\* 5 minutes away a next call reads the credential as not expired, so its
\* first attempt carries the rejected token again without a refresh.
C19_RejectedTokenStaysAndIsReused ==
    ForcedRefreshFailed =>
        /\ result.kind = "raise" /\ result.origin = "idp"
        /\ Len(sent) = 1
        /\ << access_token, token_expiry >> = credBefore
        /\ "Authorization" \notin DOMAIN argHeaders =>
              sent[1].headers["Authorization"] = GetHeaders(access_token)["Authorization"]
        /\ MoreThanSkewAhead => ~IsTokenExpired

\* C20: one read of access_token sends at most one token request and returns
\* what that request stored without a second check; a refresh whose response
\* has expires_in <= 300 leaves an expiry at most 300 seconds ahead, and every
\* read that finds the expiry at most 300 seconds ahead, the header rebuild
\* after a forced refresh included, sends another token request.
C20_OneRefreshPerReadNoRecheck ==
    /\ [](IdpRequests({"proactive"}) <= 1 /\ IdpRequests({"rebuild"}) <= 1)
    /\ [][(RefreshSucceeds /\ ret = "access_token_return") =>
              pc' = "access_token_return"]_vars
    /\ [][(RefreshSucceeds /\ ExpiresIn(token_data).n <= Skew) =>
              token_expiry'.n <= now' + Skew]_vars
    /\ [][(pc = "access_token" /\ token_expiry # PyNone
              /\ token_expiry.n <= now + Skew) =>
              (pc' = "refresh_post" /\ ret' = "access_token_return"
                  /\ UNCHANGED << access_token, token_expiry >>)]_vars

\* the header rebuild after a successful forced refresh has sent a token
\* request of its own, and the token it returns fails the check once more
C20_Witness ==
    /\ pc = "access_token_return" /\ attempt = 2
    /\ Len(idpLog) = 3
    /\ \A i \in 1..3 : idpLog[i].outcome = "ok"
    /\ idpLog[2].site = "forced" /\ idpLog[3].site = "rebuild"
    /\ IsTokenExpired

====
